---- MODULE Spec2Model ----
(***************************************************************************)
(* The media recording / playback state machine of the mock-interview      *)
(* application: the three recorder components (the combined MediaRecorder, *)
(* AudioRecorder and WebcamRecorder), the platform primitives they drive   *)
(* (getUserMedia, the recording primitive, the media element, timers,      *)
(* object URLs) and the transcription adapter.                             *)
(*                                                                         *)
(* One behaviour follows one mounted component.  React state is a variable *)
(* per useState cell; a handler invoked from the rendered controls reads   *)
(* the committed state, while a callback created earlier (a recorder's     *)
(* onstop, a retry timer, the continuation of an await) reads the values   *)
(* its closure captured, which the model stores with the pending callback. *)
(* A passive effect and its cleanup run in the action whose state change   *)
(* triggers them.  State updates issued after unmount are still recorded   *)
(* in the variables; only the platform resources are read after unmount.   *)
(***************************************************************************)
EXTENDS Integers, Sequences, FiniteSets, TLC

\* ------------------------------------------------------------------ bounds
MaxRec == 2          \* recorder instances created in one component lifetime
MaxRecShort == 1     \* the same, in the behaviours of a single recording
MaxRecLong == 3      \* the same, in the behaviours that need a third recorder
MaxSupported == 2    \* MIME types a platform under study reports as supported
MaxChunks == 2       \* non-empty chunks one recorder delivers
MaxChunkSize == 2    \* bytes of a chunk (0 is an empty chunk)
MaxPending == 2      \* getUserMedia calls in flight
MaxRetry == 2        \* pending setTimeout(startRecording)
MaxLeak == 1         \* live streams no reference points to
MaxTime == 2         \* recordingTime ticks followed
MaxOrphan == 1       \* running clock intervals timerRef no longer names
MaxLoops == 1        \* self-rescheduling analysis loops
MaxToggle == 2       \* togglePlayback calls awaiting play()/pause
MaxModeSwitch == 1   \* media-type tab changes followed
MaxDuration == 2     \* seconds of media a finalized recording holds
NumQuestions == 2    \* questions of the interview
MaxHostBlob == 2     \* distinct blobs the host can be handed
MaxCallers == 3      \* initWhisper calls

\* ---------------------------------------------------------------- variables
VARIABLES
    recLimit,           \* recorder instances the behaviour under study may create
    platform,           \* what MediaRecorder.isTypeSupported does on this page
    comp,               \* which component is mounted: "media" | "audio" | "webcam"
    mounted,            \* FALSE after the unmount cleanups ran
    mediaType,          \* "audio" | "video"
    modeSwitches,       \* tab changes so far
    isRecording, recordedBlob, recordingTime, error,
    blobType,           \* the type tag of recordedBlob, "none" without one
    isPlaying, mediaUrl, isLoading,
    transcribedText, isTranscribing, isWhisperSupportedState,
    isMediaLoaded, isPlaybackInProgress,
    streamRef,          \* TRUE: streamRef.current holds a stream
    tracksEnded,        \* TRUE: the device went away, the held stream's tracks ended
    leakedStreams,      \* live streams that no reference names any more
    acqs,               \* getUserMedia calls in flight, with their closures
    retries,            \* pending setTimeout(startRecording), with their closures
    recs,               \* the recorder instances created so far
    mediaRecorderRef,   \* index into recs, 0 for null
    chunksRef,          \* chunksRef.current (MediaRecorder, AudioRecorder)
    timerRefLive,       \* the interval timerRef.current names is running
    orphanClocks,       \* running recording-clock intervals without a reference
    playTimerLive,      \* the interval playbackTimerRef.current names is running
    analysisLoops,      \* running analysis loops (setTimeout / requestAnimationFrame)
    audioCtx,           \* "none" | "running" | "closed"
    urls,               \* urls[u]: how often URL u was revoked; Len(urls) URLs created
    elemSrc,            \* the playback element has a src
    elemPlaying,        \* the playback element is not paused
    toggles,            \* togglePlayback calls suspended at an await
    trans,              \* performTranscription calls in flight
    delivered,          \* the last onRecordingComplete call the host received
    lastStop,           \* what the last handled stop event saw and produced
    volume, isMuted, previousVolume,    \* volume state, in tenths
    currentTime, duration,              \* playback position state, in seconds
    elemVolume,         \* the volume attribute of the playback element, in tenths
    \* InterviewSession, the host of MediaRecorder
    currentQuestionIndex, responseType, textResponse,
    videoBlob, audioBlob,               \* 0: null, otherwise the blob received
    isSubmitting, isCompleted, showConfirmDialog, uploadError,
    submission,         \* the confirmSubmission call in flight and its closure
    \* whisper-client: the page and the module-level state of initWhisper
    hasWindow,          \* typeof window !== "undefined"
    windowTransformers, \* window.Transformers is defined
    isWhisperLoaded, transformersLib,
    loadPromise,        \* "null" | "pending" | "resolved" | "rejected"
    scriptElements,     \* script elements appended to document.head
    initCalls           \* the initWhisper calls so far and the promise each was given

reactVars == <<isRecording, recordedBlob, blobType, recordingTime, error, isPlaying, mediaUrl,
               isLoading, transcribedText, isTranscribing, isWhisperSupportedState,
               isMediaLoaded, isPlaybackInProgress>>
streamVars == <<streamRef, tracksEnded, leakedStreams, acqs, retries>>
recVars == <<recs, mediaRecorderRef, chunksRef>>
timerVars == <<timerRefLive, orphanClocks, playTimerLive, analysisLoops, audioCtx>>
playVars == <<urls, elemSrc, elemPlaying, toggles>>
transVars == <<trans, delivered, lastStop>>
envVars == <<comp, mounted, mediaType, modeSwitches, recLimit, platform>>
ctlVars == <<volume, isMuted, previousVolume, currentTime, duration, elemVolume>>
hostVars == <<currentQuestionIndex, responseType, textResponse, videoBlob, audioBlob,
              isSubmitting, isCompleted, showConfirmDialog, uploadError, submission>>
whisperVars == <<hasWindow, windowTransformers, isWhisperLoaded, transformersLib,
                 loadPromise, scriptElements, initCalls>>
vars == <<envVars, reactVars, streamVars, recVars, timerVars, playVars, transVars,
          ctlVars, hostVars, whisperVars>>

\* ------------------------------------------------------------------ values
Components == {"media", "audio", "webcam"}
NoBlob == [has |-> FALSE, chunks |-> <<>>]
MkBlob(cs) == [has |-> TRUE, chunks |-> cs]

RECURSIVE SumSizes(_)
SumSizes(cs) == IF cs = <<>> THEN 0 ELSE Head(cs).n + SumSizes(Tail(cs))
BlobSize(b) == SumSizes(b.chunks)

RemoveAt(s, i) == SubSeq(s, 1, i - 1) \o SubSeq(s, i + 1, Len(s))

FailString == "Transcription failed. Please try again or type your response manually."
NoSpeechApiString ==
    "Your browser does not support speech recognition. Please type your response manually."
NoTextString == "No transcription available."
TranscribingString == "Transcribing your audio..."

\* An onRecordingComplete call as the host receives it; via and stale record
\* which attempt produced the text and whether a reset overtook it.
Delivery(blob, type, text, via, stale) ==
    [any |-> TRUE, blob |-> blob, type |-> type, text |-> text, via |-> via,
     stale |-> stale]
NoDelivery == [any |-> FALSE, blob |-> NoBlob, type |-> "audio", text |-> "none",
               via |-> "none", stale |-> FALSE]
\* The chunks recorder r itself delivered, and the blob its stop event stored.
Stopped(r, got, blob) == [r |-> r, got |-> got, blob |-> blob]
NoStop == Stopped(0, <<>>, NoBlob)

\* Volume levels are tenths of the element's range [0, 1].
InitialVolume == 5
DefaultElemVolume == 10
Volumes == {0, 5, 7, 10}
\* Positions a seek may request: one below 0 and one beyond the longest media.
SeekTimes == (0 - 1)..(MaxDuration + 1)

\* InterviewSession: the response types, the text field's contents as far as
\* validateResponse tells them apart, and the blobs the recorder hands over.
ResponseTypes == {"text", "video", "audio"}
TextResponses == {"empty", "short", "long"}
HostBlobs == 1..MaxHostBlob
\* A confirmSubmission call suspended at an await, with what its closure
\* captured.
Submission(stage, idx, type, contentType) ==
    [stage |-> stage, idx |-> idx, type |-> type, contentType |-> contentType]
NoSubmission == Submission("none", 0, "text", "none")

\* The global object as initWhisper finds it: absent when the module runs
\* outside a browser, and with or without the Transformers global.
Window(has, transformers) == [has |-> has, transformers |-> transformers]
Windows == {Window(TRUE, FALSE), Window(TRUE, TRUE), Window(FALSE, FALSE)}
WhisperCallers == {"preload", "transcribe"}

\* ------------------------------------------------------------ MIME types
\* The preference lists of getBestMimeType.
AudioTypes == <<"audio/webm;codecs=opus", "audio/webm", "audio/mp4",
                "audio/ogg;codecs=opus", "audio/ogg", "audio/wav">>
VideoTypes == <<"video/webm;codecs=vp9,opus", "video/webm;codecs=vp8,opus", "video/webm",
                "video/mp4", "video/webm;codecs=h264">>
Range(seq) == {seq[i] : i \in DOMAIN seq}
MimeTypes == Range(AudioTypes) \cup Range(VideoTypes)

\* A platform: whether MediaRecorder.isTypeSupported can be called, and
\* the types for which it answers true.
Platform(probe, supported) == [probe |-> probe, supported |-> supported]
Probes == {"ok", "unavailable", "throws"}
Platforms ==
    {Platform(pr, su) : pr \in Probes,
                        su \in {x \in SUBSET MimeTypes : Cardinality(x) <= MaxSupported}}
\* A browser that records WebM.
DefaultPlatform ==
    Platform("ok", {"audio/webm;codecs=opus", "audio/webm", "video/webm;codecs=vp9,opus",
                    "video/webm;codecs=vp8,opus", "video/webm"})

\* isMimeTypeSupported: false without the probe and when the probe throws.
isMimeTypeSupported(p, t) == p.probe = "ok" /\ t \in p.supported

RECURSIVE FirstSupported(_, _, _)
FirstSupported(types, p, fallback) ==
    IF types = <<>> THEN fallback
    ELSE IF isMimeTypeSupported(p, Head(types)) THEN Head(types)
    ELSE FirstSupported(Tail(types), p, fallback)

\* A negotiation that always answers with the generic container type.
getGenericMimeType(p, isAudio) == IF isAudio THEN "audio/webm" ELSE "video/webm"

\* getBestMimeType
getBestMimeType(p, isAudio) ==
    IF isAudio THEN FirstSupported(AudioTypes, p, "audio/webm")
    ELSE FirstSupported(VideoTypes, p, "video/webm")

\* AudioRecorder.startRecording calls MediaRecorder.isTypeSupported itself.
audioRecorderMimeType(p) ==
    IF "audio/webm;codecs=opus" \in p.supported THEN "audio/webm;codecs=opus"
    ELSE IF "audio/mp4" \in p.supported THEN "audio/mp4"
    ELSE "audio/webm"

\* --------------------------------------------------------------- closures
\* What a startRecording closure captured from the render it was created in.
Closure(t, u, w, r) == [type |-> t, url |-> u, wsup |-> w, isRec |-> r]
NoClosure == Closure("audio", 0, FALSE, FALSE)
\* A getUserMedia call in flight: the isRecording its caller captured, and
\* whether startRecording's then-callback waits on it (with that closure).
Acq(r, retry, cl) == [isRec |-> r, retry |-> retry, cl |-> cl]
\* The type startRecording asks the new recorder for.
ChosenMimeType(cl) ==
    IF comp = "media" THEN getBestMimeType(platform, cl.type = "audio")
    ELSE IF comp = "audio" THEN audioRecorderMimeType(platform)
    ELSE "video/webm"
\* The recorder cannot be created: AudioRecorder's own probe is missing or
\* throws, or the constructor refuses a type the platform does not record.
NoRecorderFor(cl) ==
    \/ comp = "audio" /\ platform.probe # "ok"
    \/ platform.probe = "ok" /\ ChosenMimeType(cl) \notin platform.supported
NewRecorder(cl) == [st |-> "recording", cl |-> cl, got |-> <<>>, onRef |-> TRUE,
                    flushed |-> FALSE, mime |-> ChosenMimeType(cl)]
\* A recorder whose stop event was handled: nothing reads it again.
DeadRecorder == [st |-> "inactive", cl |-> NoClosure, got |-> <<>>, onRef |-> FALSE,
                 flushed |-> FALSE, mime |-> "none"]

\* The playback element is rendered only with a blob and outside recording.
ElemMountedIn(rec, blob) == ~rec /\ blob.has
ElemMounted == mounted /\ ElemMountedIn(isRecording, recordedBlob)

\* -------------------------------------------------------- shared helpers
\* Every track of the referenced stream is stopped: a recorder still
\* recording from it stops by itself and will fire its stop event.
RecsAfterStopTracks(rs) ==
    [i \in DOMAIN rs |->
        IF rs[i].onRef
        THEN [rs[i] EXCEPT !.st = IF @ = "recording" THEN "stopping" ELSE @,
                           !.onRef = FALSE]
        ELSE rs[i]]
\* streamRef.current is overwritten: the old stream keeps its live tracks.
RecsAfterOverwrite(rs) == [i \in DOMAIN rs |-> [rs[i] EXCEPT !.onRef = FALSE]]

Revoke(us, u) == IF u = 0 THEN us ELSE [us EXCEPT ![u] = @ + 1]
\* pause(), load() and removal from the document reject pending play() promises.
AbortPlays(ts) == [i \in DOMAIN ts |->
                     IF ts[i].kind = "play" THEN [ts[i] EXCEPT !.aborted = TRUE] ELSE ts[i]]

\* ----------------------------------------------------- playback element
\* The hidden <audio> element of AudioRecorder and of MediaRecorder's audio
\* mode is created each time the playback view is rendered; the <video>
\* element of WebcamRecorder and of MediaRecorder's video mode is the node of
\* the live preview, which the playback view takes over.
FreshElement == comp = "audio" \/ (comp = "media" /\ mediaType = "audio")
ElemVolumeOnUnmount(ev) == IF FreshElement THEN DefaultElemVolume ELSE ev

\* The element's volume after a step that leaves the volume state alone:
\* MediaRecorder's effect keyed on [mediaUrl, volume] writes the volume
\* state to a rendered element when the URL changed; otherwise a rendered
\* element keeps its volume.
ElemVolumeNext ==
    IF comp = "media" /\ ElemMounted' /\ mediaUrl' # 0 /\ mediaUrl' # mediaUrl
    THEN volume
    ELSE IF ElemMounted' THEN elemVolume ELSE ElemVolumeOnUnmount(elemVolume)
CtlFrame ==
    /\ UNCHANGED <<volume, isMuted, previousVolume, currentTime, duration>>
    /\ elemVolume' = ElemVolumeNext

\* ------------------------------------------------------------------- Init
\* The state after the first render and its mount effects.  MediaRecorder
\* runs the reset effect keyed on mediaType and then the mount effect, each
\* calling startMediaStream; AudioRecorder and WebcamRecorder call
\* startMicrophone / startCamera once.
MountAcqs(c) ==
    IF c = "media"
    THEN <<Acq(FALSE, FALSE, NoClosure), Acq(FALSE, FALSE, NoClosure)>>
    ELSE <<Acq(FALSE, FALSE, NoClosure)>>

InitIn(limit, platforms, windows) ==
    /\ comp \in Components
    /\ \E w \in windows : hasWindow = w.has /\ windowTransformers = w.transformers
    /\ isWhisperLoaded = FALSE
    /\ transformersLib = FALSE
    /\ loadPromise = "null"
    /\ scriptElements = 0
    /\ initCalls = <<>>
    /\ recLimit = limit
    /\ platform \in platforms
    /\ mounted = TRUE
    /\ mediaType \in (IF comp = "media" THEN {"audio", "video"}
                      ELSE IF comp = "audio" THEN {"audio"} ELSE {"video"})
    /\ modeSwitches = 0
    /\ isRecording = FALSE
    /\ recordedBlob = NoBlob
    /\ blobType = "none"
    /\ recordingTime = 0
    /\ error = "none"
    /\ isPlaying = FALSE
    /\ mediaUrl = 0
    /\ isLoading = (comp = "media")
    /\ transcribedText = "none"
    /\ isTranscribing = FALSE
    /\ isWhisperSupportedState \in (IF comp = "media" THEN BOOLEAN ELSE {FALSE})
    /\ isMediaLoaded = FALSE
    /\ isPlaybackInProgress = FALSE
    /\ streamRef = FALSE
    /\ tracksEnded = FALSE
    /\ leakedStreams = 0
    /\ acqs = MountAcqs(comp)
    /\ retries = <<>>
    /\ recs = <<>>
    /\ mediaRecorderRef = 0
    /\ chunksRef = <<>>
    /\ timerRefLive = FALSE
    /\ orphanClocks = 0
    /\ playTimerLive = FALSE
    /\ analysisLoops = 0
    /\ audioCtx = "none"
    /\ urls = <<>>
    /\ elemSrc = FALSE
    /\ elemPlaying = FALSE
    /\ toggles = <<>>
    /\ trans = <<>>
    /\ delivered = NoDelivery
    /\ lastStop = NoStop
    /\ volume = InitialVolume
    /\ isMuted = FALSE
    /\ previousVolume = InitialVolume
    /\ currentTime = 0
    /\ duration = 0
    /\ elemVolume = DefaultElemVolume
    /\ currentQuestionIndex = 0
    /\ responseType = "text"
    /\ textResponse = "empty"
    /\ videoBlob = 0
    /\ audioBlob = 0
    /\ isSubmitting = FALSE
    /\ isCompleted = FALSE
    /\ showConfirmDialog = FALSE
    /\ uploadError = FALSE
    /\ submission = NoSubmission

InitWith(limit, platforms) == InitIn(limit, platforms, {Window(TRUE, FALSE)})
Init == InitWith(MaxRec, {DefaultPlatform})

\* ------------------------------------------------- stream acquisition
\* startRecording's then-callback: MediaRecorder re-invokes startRecording
\* after 500 ms only when a stream is held; AudioRecorder and
\* WebcamRecorder schedule the retry whatever the acquisition's outcome.
\* afterFail records which outcome the callback followed.
RetriesAfter(a, held, failed) ==
    IF a.retry /\ (comp # "media" \/ held)
    THEN Append(retries, [cl |-> a.cl, afterFail |-> failed])
    ELSE retries

\* The analysis loop the acquisition starts keeps running only when the
\* closure that started the acquisition saw isRecording = TRUE.
LoopsAfterAcquire(a) ==
    IF a.isRec /\ comp # "webcam" THEN analysisLoops + 1 ELSE analysisLoops

\* getUserMedia resolves: startMediaStream / startMicrophone / startCamera
\* continue after their await.
AcquireOk(i) ==
    /\ i \in DOMAIN acqs
    /\ (streamRef /\ ~tracksEnded) => leakedStreams < MaxLeak
    /\ LoopsAfterAcquire(acqs[i]) <= MaxLoops
    /\ Len(RetriesAfter(acqs[i], TRUE, FALSE)) <= MaxRetry
    /\ streamRef' = TRUE
    /\ tracksEnded' = FALSE
    /\ leakedStreams' = IF streamRef /\ ~tracksEnded THEN leakedStreams + 1 ELSE leakedStreams
    /\ recs' = RecsAfterOverwrite(recs)
    /\ acqs' = RemoveAt(acqs, i)
    /\ retries' = RetriesAfter(acqs[i], TRUE, FALSE)
    /\ analysisLoops' = LoopsAfterAcquire(acqs[i])
    /\ isLoading' = IF comp = "media" THEN FALSE ELSE isLoading
    /\ \E throws \in BOOLEAN :
          \* WebcamRecorder reuses its AudioContext even when closed; whether
          \* wiring the analyser to a closed context throws is up to the platform.
          /\ throws => (comp = "webcam" /\ audioCtx = "closed")
          /\ audioCtx' = IF comp = "media" THEN audioCtx
                         ELSE IF comp = "audio" THEN "running"
                         ELSE IF audioCtx = "none" THEN "running" ELSE audioCtx
          /\ error' = IF throws THEN "other" ELSE error
    /\ UNCHANGED <<envVars, isRecording, recordedBlob, blobType, recordingTime, isPlaying, mediaUrl,
                   transcribedText, isTranscribing, isWhisperSupportedState,
                   isMediaLoaded, isPlaybackInProgress, mediaRecorderRef, chunksRef,
                   timerRefLive, orphanClocks, playTimerLive, playVars, transVars>>
    /\ CtlFrame
    /\ UNCHANGED <<hostVars, whisperVars>>

\* getUserMedia rejects: permission denied or no device.
AcquireFail(i, cause) ==
    /\ i \in DOMAIN acqs
    /\ Len(RetriesAfter(acqs[i], streamRef, TRUE)) <= MaxRetry
    /\ error' = cause
    /\ isLoading' = IF comp = "media" THEN FALSE ELSE isLoading
    /\ acqs' = RemoveAt(acqs, i)
    /\ retries' = RetriesAfter(acqs[i], streamRef, TRUE)
    /\ UNCHANGED <<envVars, isRecording, recordedBlob, blobType, recordingTime, isPlaying, mediaUrl,
                   transcribedText, isTranscribing, isWhisperSupportedState,
                   isMediaLoaded, isPlaybackInProgress, streamRef, tracksEnded, leakedStreams,
                   recVars, timerVars, playVars, transVars>>
    /\ CtlFrame
    /\ UNCHANGED <<hostVars, whisperVars>>

\* ------------------------------------------------------- startRecording
\* The body of startRecording run from closure cl.  Without a stream it
\* starts an acquisition and returns; with one it creates and starts a
\* recorder, resets the shared chunk buffer and starts the clock interval
\* without clearing the interval timerRef may still name.
DoStart(cl) ==
    IF ~streamRef
    THEN /\ Len(acqs) < MaxPending
         /\ acqs' = Append(acqs, Acq(cl.isRec, TRUE, cl))
         /\ error' = "none"
         /\ isLoading' = IF comp = "media" THEN TRUE ELSE isLoading
         /\ UNCHANGED <<isRecording, recordingTime, recVars, timerRefLive, orphanClocks,
                        analysisLoops>>
    ELSE \E throws \in IF NoRecorderFor(cl) THEN {TRUE}
                        ELSE IF tracksEnded THEN BOOLEAN ELSE {FALSE} :
         IF throws
         THEN \* the constructor rejects the type, or start() a stream without
              \* live tracks: the catch block
              /\ error' = "start"
              /\ chunksRef' = IF comp = "webcam" THEN chunksRef ELSE <<>>
              /\ UNCHANGED <<isRecording, recordingTime, recs, mediaRecorderRef,
                             timerRefLive, orphanClocks, analysisLoops, acqs, isLoading>>
         ELSE /\ Len(recs) < recLimit
              /\ timerRefLive => orphanClocks < MaxOrphan
              /\ recs' = Append(recs, IF tracksEnded
                                      THEN [NewRecorder(cl) EXCEPT !.st = "stopping"]
                                      ELSE NewRecorder(cl))
              /\ mediaRecorderRef' = Len(recs) + 1
              /\ chunksRef' = IF comp = "webcam" THEN chunksRef ELSE <<>>
              /\ isRecording' = TRUE
              /\ recordingTime' = 0
              /\ orphanClocks' = IF timerRefLive THEN orphanClocks + 1 ELSE orphanClocks
              /\ timerRefLive' = TRUE
              \* WebcamRecorder calls analyzeVideo() from the same closure
              /\ analysisLoops' = IF comp = "webcam" /\ cl.isRec
                                  THEN analysisLoops + 1 ELSE analysisLoops
              /\ analysisLoops' <= MaxLoops
              /\ UNCHANGED <<acqs, error, isLoading>>

\* The capture device goes away while the current recorder records from the
\* held stream: every live track ends and every recorder stops by itself.
\* No component listens for a track's ended event, a stream's inactive
\* event or a recorder's error event, so no handler runs at this point;
\* the recorders' stop events follow as after an ordinary stop.
DeviceLost ==
    /\ mounted /\ isRecording /\ streamRef /\ ~tracksEnded
    /\ mediaRecorderRef # 0
    /\ recs[mediaRecorderRef].st = "recording" /\ recs[mediaRecorderRef].onRef
    /\ tracksEnded' = TRUE
    /\ leakedStreams' = 0
    /\ recs' = [i \in DOMAIN recs |->
                  [recs[i] EXCEPT !.st = IF @ = "recording" THEN "stopping" ELSE @]]
    /\ UNCHANGED <<envVars, reactVars, streamRef, acqs, retries, mediaRecorderRef,
                   chunksRef, timerVars, playVars, transVars>>
    /\ CtlFrame
    /\ UNCHANGED <<hostVars, whisperVars>>

\* The Start Recording button: rendered while neither recording nor holding
\* a blob, and in MediaRecorder disabled while isLoading.
StartRecording ==
    /\ mounted /\ ~isRecording /\ ~recordedBlob.has
    /\ comp = "media" => ~isLoading
    /\ DoStart(Closure(mediaType, mediaUrl, isWhisperSupportedState, isRecording))
    /\ UNCHANGED <<envVars, recordedBlob, blobType, isPlaying, mediaUrl, transcribedText,
                   isTranscribing, isWhisperSupportedState, isMediaLoaded,
                   isPlaybackInProgress, streamRef, tracksEnded, leakedStreams, retries,
                   playTimerLive, audioCtx, playVars, transVars>>
    /\ CtlFrame
    /\ UNCHANGED <<hostVars, whisperVars>>

\* A pending setTimeout(startRecording) fires with the closure it was given.
RetryFires(i) ==
    /\ i \in DOMAIN retries
    /\ retries' = RemoveAt(retries, i)
    /\ DoStart(retries[i].cl)
    \* the playback element leaves the document when recording starts
    /\ elemSrc' = (elemSrc /\ ~isRecording')
    /\ elemPlaying' = (elemPlaying /\ ~isRecording')
    /\ toggles' = IF ElemMounted /\ isRecording' THEN AbortPlays(toggles) ELSE toggles
    /\ UNCHANGED <<envVars, recordedBlob, blobType, isPlaying, mediaUrl, transcribedText,
                   isTranscribing, isWhisperSupportedState, isMediaLoaded,
                   isPlaybackInProgress, streamRef, tracksEnded, leakedStreams,
                   playTimerLive, audioCtx, urls, transVars>>
    /\ CtlFrame
    /\ UNCHANGED <<hostVars, whisperVars>>

\* ------------------------------------------------------ ondataavailable
\* MediaRecorder and AudioRecorder start the primitive with a 100 ms time
\* slice; WebcamRecorder starts it without one, so its data arrives only in
\* the flush that precedes the stop event.  Empty chunks are dropped.
CanDeliver(r) ==
    \/ recs[r].st = "recording" /\ comp # "webcam"
    \/ recs[r].st = "stopping" /\ ~recs[r].flushed

DataAvailable(r, n) ==
    /\ r \in DOMAIN recs
    /\ CanDeliver(r)
    /\ n > 0 => Len(recs[r].got) < MaxChunks
    /\ recs' = [recs EXCEPT ![r].got = IF n > 0 THEN Append(@, [r |-> r, n |-> n]) ELSE @,
                            ![r].flushed = (recs[r].st = "stopping")]
    /\ chunksRef' = IF n > 0 /\ comp # "webcam"
                    THEN Append(chunksRef, [r |-> r, n |-> n]) ELSE chunksRef
    /\ UNCHANGED <<envVars, reactVars, streamVars, mediaRecorderRef, timerVars,
                   playVars, transVars>>
    /\ CtlFrame
    /\ UNCHANGED <<hostVars, whisperVars>>

\* -------------------------------------------------------- stopRecording
\* The Stop Recording button.  stop() on a recorder that already stopped by
\* itself either throws InvalidStateError or does nothing, depending on the
\* platform; MediaRecorder and AudioRecorder catch the exception.
StopRecording ==
    /\ mounted /\ isRecording /\ mediaRecorderRef # 0
    /\ \E throws \in BOOLEAN :
        /\ throws => recs[mediaRecorderRef].st # "recording"
        /\ IF throws
           THEN /\ error' = IF comp = "webcam" THEN error ELSE "stop"
                /\ UNCHANGED <<isRecording, recs, streamRef, tracksEnded, timerRefLive, playTimerLive>>
           ELSE /\ isRecording' = FALSE
                /\ timerRefLive' = FALSE
                /\ UNCHANGED error
                /\ LET stopped == [recs EXCEPT ![mediaRecorderRef].st =
                                      IF @ = "recording" THEN "stopping" ELSE @]
                   IN IF comp = "media"
                      THEN \* clearTimers(); the stream is kept
                           /\ recs' = stopped
                           /\ playTimerLive' = FALSE
                           /\ UNCHANGED <<streamRef, tracksEnded>>
                      ELSE \* clearInterval(timerRef.current); stopMediaTracks()
                           /\ recs' = RecsAfterStopTracks(stopped)
                           /\ streamRef' = FALSE
                           /\ tracksEnded' = FALSE
                           /\ UNCHANGED playTimerLive
    /\ UNCHANGED <<envVars, recordedBlob, blobType, recordingTime, isPlaying, mediaUrl, isLoading,
                   transcribedText, isTranscribing, isWhisperSupportedState,
                   isMediaLoaded, isPlaybackInProgress, leakedStreams, acqs, retries,
                   mediaRecorderRef, chunksRef, orphanClocks, analysisLoops, audioCtx,
                   playVars, transVars>>
    /\ CtlFrame
    /\ UNCHANGED <<hostVars, whisperVars>>

\* ---------------------------------------------------------------- onstop
\* The cleanup of the effect keyed on audioUrl / videoUrl (AudioRecorder,
\* WebcamRecorder) runs whenever that URL state changes: it stops the
\* tracks, clears both intervals, revokes the URL of the render it belongs
\* to and closes the audio context.
CtxClosed(c) == IF c = "none" THEN "none" ELSE "closed"

\* performTranscription up to its first await.
NewTranscription(r, blob, cl) ==
    [rec |-> r, blob |-> blob, stage |-> IF cl.wsup THEN "client" ELSE "fallback",
     stale |-> FALSE]


\* A finalization that transcribes whatever the mode.
TranscribesAlways(cl) == TRUE

\* onstop transcribes when the mediaType its closure captured is audio.
TranscribesOnStop(cl) == cl.type = "audio"

\* MediaRecorder: the stop event of recorder r.
OnStopMedia(r) ==
    /\ comp = "media"
    /\ r \in DOMAIN recs /\ recs[r].st = "stopping"
    /\ recs' = [recs EXCEPT ![r] = DeadRecorder]
    /\ IF chunksRef = <<>>
       THEN /\ error' = "empty"
            /\ lastStop' = Stopped(r, recs[r].got, NoBlob)
            /\ UNCHANGED <<recordedBlob, blobType, mediaUrl, isMediaLoaded, transcribedText,
                           isTranscribing, playVars, trans, delivered>>
       ELSE LET blob == MkBlob(chunksRef)
                cl == recs[r].cl
                nowMounted == mounted /\ ElemMountedIn(isRecording, blob)
            IN /\ recordedBlob' = blob
               /\ blobType' = recs[r].mime
               /\ lastStop' = Stopped(r, recs[r].got, blob)
               \* revokeMediaUrl() reads the mediaUrl its closure captured
               /\ urls' = Append(Revoke(urls, cl.url), 0)
               /\ mediaUrl' = Len(urls) + 1
               \* mediaRef.current.src is set only if the element is rendered now
               /\ elemSrc' = ElemMounted
               \* the effect keyed on mediaUrl reloads a rendered element
               /\ isMediaLoaded' = IF nowMounted THEN FALSE ELSE isMediaLoaded
               /\ elemPlaying' = FALSE
               /\ toggles' = IF ElemMounted THEN AbortPlays(toggles) ELSE toggles
               /\ IF TranscribesOnStop(cl)
                  THEN /\ trans' = Append(trans, NewTranscription(r, blob, cl))
                       /\ isTranscribing' = TRUE
                       /\ transcribedText' = TranscribingString
                       /\ UNCHANGED delivered
                  ELSE /\ delivered' = Delivery(blob, cl.type, "none", "none", FALSE)
                       /\ UNCHANGED <<trans, isTranscribing, transcribedText>>
               /\ UNCHANGED error
    /\ UNCHANGED <<envVars, isRecording, recordingTime, isPlaying, isLoading,
                   isWhisperSupportedState, isPlaybackInProgress, streamVars,
                   mediaRecorderRef, chunksRef, timerVars>>
    /\ CtlFrame
    /\ UNCHANGED <<hostVars, whisperVars>>

\* AudioRecorder and WebcamRecorder: the stop event of recorder r.
\* AudioRecorder refuses an empty buffer; WebcamRecorder builds the blob
\* from its recorder's own chunk list whatever it holds.
OnStopPlain(r) ==
    /\ comp # "media"
    /\ r \in DOMAIN recs /\ recs[r].st = "stopping"
    /\ IF comp = "audio" /\ chunksRef = <<>>
       THEN /\ error' = "empty"
            /\ recs' = [recs EXCEPT ![r] = DeadRecorder]
            /\ lastStop' = Stopped(r, recs[r].got, NoBlob)
            /\ UNCHANGED <<recordedBlob, blobType, mediaUrl, streamRef, tracksEnded, timerRefLive, playTimerLive,
                           analysisLoops, audioCtx, playVars, delivered>>
       ELSE LET blob == MkBlob(IF comp = "audio" THEN chunksRef ELSE recs[r].got)
                cl == recs[r].cl
            IN /\ recordedBlob' = blob
               /\ blobType' = recs[r].mime
               /\ lastStop' = Stopped(r, recs[r].got, blob)
               /\ delivered' = Delivery(blob, mediaType, "none", "none", FALSE)
               \* the handler revokes the URL its closure captured, the
               \* effect cleanup the URL of the committed render
               /\ urls' = Append(Revoke(Revoke(urls, cl.url), mediaUrl), 0)
               /\ mediaUrl' = Len(urls) + 1
               /\ elemSrc' = ElemMounted
               /\ elemPlaying' = FALSE
               /\ toggles' = IF ElemMounted THEN AbortPlays(toggles) ELSE toggles
               \* effect cleanup
               /\ recs' = RecsAfterStopTracks([recs EXCEPT ![r] = DeadRecorder])
               /\ streamRef' = FALSE
               /\ tracksEnded' = FALSE
               /\ timerRefLive' = FALSE
               /\ playTimerLive' = FALSE
               /\ audioCtx' = CtxClosed(audioCtx)
               /\ analysisLoops' = IF comp = "audio" THEN 0 ELSE analysisLoops
               /\ UNCHANGED error
    /\ UNCHANGED <<envVars, isRecording, recordingTime, isPlaying, isLoading,
                   transcribedText, isTranscribing, isWhisperSupportedState,
                   isMediaLoaded, isPlaybackInProgress, leakedStreams, acqs, retries,
                   mediaRecorderRef, chunksRef, orphanClocks, trans>>
    /\ CtlFrame
    /\ UNCHANGED <<hostVars, whisperVars>>

\* --------------------------------------------------------- resetRecording
\* MediaRecorder.resetRecording run from the committed render, followed by
\* startMediaStream up to its await.  The reset does not touch
\* isTranscribing, and an in-flight transcription is not cancelled; stale
\* only records that a reset happened while it was in flight.
MarkStale(ts) == [i \in DOMAIN ts |-> [ts[i] EXCEPT !.stale = TRUE]]

DoResetMedia ==
    /\ Len(acqs) < MaxPending
    /\ \E throws \in BOOLEAN :
        LET stopping == isRecording /\ mediaRecorderRef # 0
            rs == IF stopping /\ ~throws
                  THEN [recs EXCEPT ![mediaRecorderRef].st =
                           IF @ = "recording" THEN "stopping" ELSE @]
                  ELSE recs
        IN /\ throws => (stopping /\ recs[mediaRecorderRef].st # "recording")
           /\ isRecording' = IF stopping /\ ~throws THEN FALSE ELSE isRecording
           /\ recs' = RecsAfterStopTracks(rs)
    /\ streamRef' = FALSE
    /\ tracksEnded' = FALSE
    /\ timerRefLive' = FALSE
    /\ playTimerLive' = FALSE
    /\ urls' = Revoke(urls, mediaUrl)
    /\ mediaUrl' = 0
    /\ recordedBlob' = NoBlob
    /\ blobType' = "none"
    /\ recordingTime' = 0
    /\ isPlaying' = FALSE
    /\ transcribedText' = "none"
    /\ isMediaLoaded' = FALSE
    /\ isPlaybackInProgress' = FALSE
    /\ elemSrc' = FALSE
    /\ elemPlaying' = FALSE
    /\ toggles' = IF ElemMounted THEN AbortPlays(toggles) ELSE toggles
    /\ trans' = MarkStale(trans)
    \* startMediaStream()
    /\ error' = "none"
    /\ isLoading' = TRUE
    /\ acqs' = Append(acqs, Acq(isRecording, FALSE, NoClosure))
    /\ UNCHANGED <<comp, mounted, recLimit, platform, isTranscribing, isWhisperSupportedState, leakedStreams,
                   retries, mediaRecorderRef, chunksRef, orphanClocks, analysisLoops,
                   audioCtx, delivered, lastStop>>
    /\ currentTime' = 0
    /\ duration' = 0
    /\ UNCHANGED <<volume, isMuted, previousVolume>>

\* AudioRecorder / WebcamRecorder.resetRecording, then the cleanup of the
\* effect keyed on the URL state when that state changed.
DoResetPlain ==
    /\ Len(acqs) < MaxPending
    /\ urls' = Revoke(Revoke(urls, mediaUrl), mediaUrl)
    /\ mediaUrl' = 0
    /\ recordedBlob' = NoBlob
    /\ blobType' = "none"
    /\ recordingTime' = 0
    /\ isPlaying' = FALSE
    /\ elemSrc' = FALSE
    /\ elemPlaying' = FALSE
    /\ toggles' = IF ElemMounted THEN AbortPlays(toggles) ELSE toggles
    /\ error' = "none"
    /\ acqs' = Append(acqs, Acq(isRecording, FALSE, NoClosure))
    /\ IF mediaUrl # 0
       THEN /\ recs' = RecsAfterStopTracks(recs)
            /\ streamRef' = FALSE
            /\ tracksEnded' = FALSE
            /\ timerRefLive' = FALSE
            /\ playTimerLive' = FALSE
            /\ audioCtx' = CtxClosed(audioCtx)
            /\ analysisLoops' = IF comp = "audio" THEN 0 ELSE analysisLoops
       ELSE UNCHANGED <<recs, streamRef, tracksEnded, timerRefLive, playTimerLive, audioCtx,
                        analysisLoops>>
    /\ UNCHANGED <<comp, mounted, recLimit, platform, isRecording, isLoading, transcribedText, isTranscribing,
                   isWhisperSupportedState, isMediaLoaded, isPlaybackInProgress,
                   leakedStreams, retries, mediaRecorderRef, chunksRef, orphanClocks,
                   transVars>>
    /\ currentTime' = 0
    /\ duration' = 0
    /\ UNCHANGED <<volume, isMuted, previousVolume>>

\* The Record Again button, rendered while a blob is held.
ResetRecording ==
    /\ mounted /\ recordedBlob.has
    /\ IF comp = "media" THEN DoResetMedia ELSE DoResetPlain
    /\ UNCHANGED <<mediaType, modeSwitches>>
    /\ elemVolume' = ElemVolumeOnUnmount(elemVolume)
    /\ UNCHANGED <<hostVars, whisperVars>>

\* The audio / video tabs of MediaRecorder, disabled while recording: the
\* effect keyed on mediaType calls resetRecording.
SetMediaType(t) ==
    /\ comp = "media" /\ mounted /\ ~isRecording
    /\ t # mediaType
    /\ modeSwitches < MaxModeSwitch
    /\ mediaType' = t
    /\ modeSwitches' = modeSwitches + 1
    /\ DoResetMedia
    /\ elemVolume' = DefaultElemVolume
    /\ UNCHANGED <<hostVars, whisperVars>>

\* --------------------------------------------------------- togglePlayback
Toggle(k) == [kind |-> k, aborted |-> FALSE]

\* The play / pause button.  MediaRecorder disables it while
\* isPlaybackInProgress or before the media loaded and suspends at an await
\* in both branches; AudioRecorder and WebcamRecorder pause synchronously
\* and await only play().  Without a rendered element every variant returns.
TogglePlayback ==
    /\ mounted /\ recordedBlob.has /\ ElemMounted
    /\ Len(toggles) < MaxToggle
    /\ IF comp = "media"
       THEN /\ ~isPlaybackInProgress /\ isMediaLoaded
            /\ mediaUrl # 0
            /\ isPlaybackInProgress' = TRUE
            /\ IF isPlaying
               THEN /\ elemPlaying' = FALSE
                    /\ toggles' = Append(AbortPlays(toggles), Toggle("pause"))
               ELSE /\ toggles' = Append(toggles, Toggle("play"))
                    /\ UNCHANGED elemPlaying
            /\ UNCHANGED <<isPlaying, playTimerLive>>
       ELSE /\ IF isPlaying
               THEN /\ elemPlaying' = FALSE
                    /\ toggles' = AbortPlays(toggles)
                    /\ isPlaying' = FALSE
                    /\ playTimerLive' = FALSE
               ELSE /\ toggles' = Append(toggles, Toggle("play"))
                    /\ UNCHANGED <<elemPlaying, isPlaying, playTimerLive>>
            /\ UNCHANGED isPlaybackInProgress
    /\ UNCHANGED <<envVars, isRecording, recordedBlob, blobType, recordingTime, error, mediaUrl,
                   isLoading, transcribedText, isTranscribing, isWhisperSupportedState,
                   isMediaLoaded, streamVars, recVars, timerRefLive, orphanClocks,
                   analysisLoops, audioCtx, urls, elemSrc, transVars>>
    /\ CtlFrame
    /\ UNCHANGED <<hostVars, whisperVars>>

\* The continuation of a suspended togglePlayback.  play() resolves only on
\* a rendered element with a source whose promise was not rejected by a
\* pause, a reload or the element's removal.  Continuations run in the
\* order of the calls, and the element settles all its pending play()
\* promises at once: the continuations of the calls that share the outcome
\* run back to back and assign the same values.
SettledWith(t, ts) ==
    IF t.kind = "play" /\ ~t.aborted
    THEN SelectSeq(ts, LAMBDA x : x.kind # "play" \/ x.aborted)
    ELSE ts
ToggleSettle(i, ok) ==
    /\ i \in DOMAIN toggles /\ i = 1
    /\ toggles' = SettledWith(toggles[i], RemoveAt(toggles, i))
    /\ LET t == toggles[i] IN
       IF t.kind = "pause"
       THEN /\ ok
            /\ isPlaying' = FALSE
            /\ playTimerLive' = FALSE
            /\ isPlaybackInProgress' = FALSE
            /\ UNCHANGED <<elemPlaying, error>>
       ELSE /\ ok => (~t.aborted /\ elemSrc /\ ElemMounted)
            /\ IF ok
               THEN /\ elemPlaying' = TRUE
                    /\ isPlaying' = TRUE
                    /\ playTimerLive' = TRUE
                    /\ UNCHANGED error
               ELSE /\ IF comp = "media"
                       THEN error' = "playback" /\ UNCHANGED isPlaying
                       ELSE isPlaying' = FALSE /\ UNCHANGED error
                    /\ UNCHANGED <<elemPlaying, playTimerLive>>
            /\ isPlaybackInProgress' = IF comp = "media" THEN FALSE
                                       ELSE isPlaybackInProgress
    /\ UNCHANGED <<envVars, isRecording, recordedBlob, blobType, recordingTime, mediaUrl,
                   isLoading, transcribedText, isTranscribing, isWhisperSupportedState,
                   isMediaLoaded, streamVars, recVars, timerRefLive, orphanClocks,
                   analysisLoops, audioCtx, urls, elemSrc, transVars>>
    /\ CtlFrame
    /\ UNCHANGED <<hostVars, whisperVars>>

\* loadedmetadata / loadeddata on MediaRecorder's playback element.
MediaLoaded(d) ==
    /\ comp = "media" /\ ElemMounted /\ elemSrc /\ ~isMediaLoaded
    /\ isMediaLoaded' = TRUE
    /\ duration' = d
    /\ UNCHANGED <<envVars, isRecording, recordedBlob, blobType, recordingTime, error, isPlaying,
                   mediaUrl, isLoading, transcribedText, isTranscribing,
                   isWhisperSupportedState, isPlaybackInProgress, streamVars, recVars,
                   timerVars, playVars, transVars>>
    /\ UNCHANGED <<volume, isMuted, previousVolume, currentTime, elemVolume>>
    /\ UNCHANGED <<hostVars, whisperVars>>

\* onloadedmetadata as AudioRecorder and WebcamRecorder attach it in onstop,
\* next to the src, when the playback element is rendered at that moment.
LoadedMetadata(d) ==
    /\ comp # "media" /\ ElemMounted /\ elemSrc
    /\ d # duration
    /\ duration' = d
    /\ UNCHANGED <<envVars, reactVars, streamVars, recVars, timerVars, playVars, transVars,
                   volume, isMuted, previousVolume, currentTime, elemVolume>>
    /\ UNCHANGED <<hostVars, whisperVars>>

\* The element's ended event: handleMediaEnded / handleAudioEnded /
\* handleVideoEnded, and in MediaRecorder the handleEnded listener too.
handleMediaEndedKeepsTimer(p) == [p EXCEPT !.isPlaying = FALSE]
handleMediaEnded(p) == [p EXCEPT !.isPlaying = FALSE, !.playTimerLive = FALSE]
MediaEnded ==
    /\ elemPlaying
    /\ elemPlaying' = FALSE
    /\ LET p == handleMediaEnded([isPlaying |-> isPlaying, playTimerLive |-> playTimerLive])
       IN isPlaying' = p.isPlaying /\ playTimerLive' = p.playTimerLive
    /\ isPlaybackInProgress' = IF comp = "media" THEN FALSE ELSE isPlaybackInProgress
    /\ UNCHANGED <<envVars, isRecording, recordedBlob, blobType, recordingTime, error, mediaUrl,
                   isLoading, transcribedText, isTranscribing, isWhisperSupportedState,
                   isMediaLoaded, streamVars, recVars, timerRefLive, orphanClocks,
                   analysisLoops, audioCtx, urls, elemSrc, toggles, transVars>>
    /\ CtlFrame
    /\ UNCHANGED <<hostVars, whisperVars>>

\* ------------------------------------------------- seek, volume and mute
\* The sliders and the mute button are rendered with a blob; AudioRecorder
\* renders them inside the playback view only.
ControlsRendered ==
    mounted /\ recordedBlob.has /\ (comp = "audio" => ~isRecording)

Ctl(v, m, p, e) == [volume |-> v, isMuted |-> m, previousVolume |-> p, elemVolume |-> e]
CtlNow == Ctl(volume, isMuted, previousVolume, elemVolume)

\* handleVolumeChange: the state always takes the new level, the element
\* only when it is rendered; the mute flag is cleared for a level above 0
\* and otherwise left as it is.
handleVolumeChange(c, v, hasElem) ==
    [c EXCEPT !.volume = v,
              !.elemVolume = IF hasElem THEN v ELSE @,
              !.isMuted = IF v > 0 THEN FALSE ELSE @]

\* A mute that does not remember the level it replaces.
toggleMuteForgets(c, hasElem) ==
    IF ~hasElem THEN c
    ELSE IF c.isMuted
         THEN [c EXCEPT !.elemVolume = c.previousVolume, !.volume = c.previousVolume,
                        !.isMuted = FALSE]
         ELSE [c EXCEPT !.elemVolume = 0, !.volume = 0, !.isMuted = TRUE]

\* toggleMute: nothing without a rendered element; unmuting restores
\* previousVolume, muting stores the current level and writes 0.
toggleMute(c, hasElem) ==
    IF ~hasElem THEN c
    ELSE IF c.isMuted
         THEN [c EXCEPT !.elemVolume = c.previousVolume, !.volume = c.previousVolume,
                        !.isMuted = FALSE]
         ELSE [c EXCEPT !.previousVolume = c.volume, !.elemVolume = 0, !.volume = 0,
                        !.isMuted = TRUE]

\* handleSliderChange: the requested position is stored as it comes.
handleSliderChange(cur, t, hasElem) == IF hasElem THEN t ELSE cur

\* The volume state changed under MediaRecorder's effect keyed on
\* [mediaUrl, volume]: with a URL and a rendered element the effect clears
\* isMediaLoaded, writes the volume and calls load(), which pauses the
\* element and rejects pending play() promises.
VolumeEffect(c) ==
    LET fires == comp = "media" /\ c.volume # volume /\ mediaUrl # 0 /\ ElemMounted
    IN /\ volume' = c.volume
       /\ isMuted' = c.isMuted
       /\ previousVolume' = c.previousVolume
       /\ elemVolume' = IF fires THEN c.volume ELSE c.elemVolume
       /\ isMediaLoaded' = IF fires THEN FALSE ELSE isMediaLoaded
       /\ elemPlaying' = IF fires THEN FALSE ELSE elemPlaying
       /\ toggles' = IF fires THEN AbortPlays(toggles) ELSE toggles
       /\ UNCHANGED <<envVars, isRecording, recordedBlob, blobType, recordingTime, error, isPlaying,
                      mediaUrl, isLoading, transcribedText, isTranscribing,
                      isWhisperSupportedState, isPlaybackInProgress, streamVars, recVars,
                      timerVars, urls, elemSrc, transVars, currentTime, duration>>

HandleVolumeChange(v) ==
    /\ ControlsRendered
    /\ v # volume
    /\ VolumeEffect(handleVolumeChange(CtlNow, v, ElemMounted))
    /\ UNCHANGED <<hostVars, whisperVars>>

ToggleMute ==
    /\ ControlsRendered
    /\ VolumeEffect(toggleMute(CtlNow, ElemMounted))
    /\ UNCHANGED <<hostVars, whisperVars>>

HandleSliderChange(t) ==
    /\ ControlsRendered
    /\ currentTime' = handleSliderChange(currentTime, t, ElemMounted)
    /\ UNCHANGED <<envVars, reactVars, streamVars, recVars, timerVars, playVars, transVars,
                   volume, isMuted, previousVolume, duration, elemVolume>>
    /\ UNCHANGED <<hostVars, whisperVars>>

\* One frame of AudioRecorder's analysis loop: besides emitting a sample
\* through onAnalysisUpdate, updateAnalysis writes the measured level into
\* the volume state the playback controls use.
AnalysisFrame(v) ==
    /\ comp = "audio" /\ analysisLoops > 0 /\ audioCtx = "running"
    /\ v # volume
    /\ volume' = v
    /\ UNCHANGED <<envVars, reactVars, streamVars, recVars, timerVars, playVars, transVars,
                   isMuted, previousVolume, currentTime, duration, elemVolume>>
    /\ UNCHANGED <<hostVars, whisperVars>>

\* One running recording-clock interval fires.
ClockTick ==
    /\ timerRefLive \/ orphanClocks > 0
    /\ recordingTime < MaxTime
    /\ recordingTime' = recordingTime + 1
    /\ UNCHANGED <<envVars, isRecording, recordedBlob, blobType, error, isPlaying, mediaUrl,
                   isLoading, transcribedText, isTranscribing, isWhisperSupportedState,
                   isMediaLoaded, isPlaybackInProgress, streamVars, recVars, timerVars,
                   playVars, transVars>>
    /\ CtlFrame
    /\ UNCHANGED <<hostVars, whisperVars>>

\* ----------------------------------------------------------------- unmount
\* The effect cleanups at unmount.  MediaRecorder's cleanup was created by
\* the first render, so its revokeMediaUrl reads mediaUrl = null.  In
\* AudioRecorder and WebcamRecorder the cleanup keyed on the URL state
\* belongs to the last render and revokes the current URL; the one created
\* at mount reads null.
Unmount ==
    /\ mounted
    /\ mounted' = FALSE
    /\ recs' = RecsAfterStopTracks(recs)
    /\ streamRef' = FALSE
    /\ tracksEnded' = FALSE
    /\ timerRefLive' = FALSE
    /\ playTimerLive' = FALSE
    /\ urls' = IF comp = "media" THEN urls ELSE Revoke(urls, mediaUrl)
    /\ audioCtx' = IF comp = "media" THEN audioCtx ELSE CtxClosed(audioCtx)
    /\ analysisLoops' = IF comp = "audio" THEN 0 ELSE analysisLoops
    /\ elemSrc' = FALSE
    /\ elemPlaying' = FALSE
    /\ toggles' = AbortPlays(toggles)
    /\ UNCHANGED <<comp, mediaType, modeSwitches, recLimit, platform, reactVars, leakedStreams, acqs, retries,
                   mediaRecorderRef, chunksRef, orphanClocks, transVars>>
    /\ UNCHANGED <<volume, isMuted, previousVolume, currentTime, duration>>
    /\ elemVolume' = DefaultElemVolume
    /\ UNCHANGED <<hostVars, whisperVars>>

\* ----------------------------------------------------------- transcription
\* What can happen to the Whisper attempt: the library load rejects, it
\* resolves without the library object, the pipeline throws, or it yields
\* a text, possibly an empty one.
WhisperEvents == {"loadRejects", "libMissing", "pipelineThrows", "text", "emptyText"}
\* What can happen to the Web Speech attempt.
FallbackEvents == {"noApi", "startThrows", "recognitionError", "playRejects",
                   "endedSilent", "text"}

\* How a call completes: with a string, or by throwing / rejecting.
Return(s) == [kind |-> "return", text |-> s]
Throw == [kind |-> "throw", text |-> "none"]
\* try { body } catch { handler }
Catch(body, handler) == IF body.kind = "throw" THEN handler ELSE body
TranscriptTexts == {"text", FailString, NoTextString, NoSpeechApiString}

\* The try block of transcribeAudioClient: await initWhisper(), the check
\* of transformersLib, and the pipeline, whose own catch rethrows.
WhisperBody(ev) ==
    IF ev \in {"loadRejects", "libMissing", "pipelineThrows"} THEN Throw
    ELSE IF ev = "emptyText" THEN Return(NoTextString)
    ELSE Return("text")

\* transcribeAudioClient without its outer catch.
transcribeAudioClientRethrows(ev) == WhisperBody(ev)

\* transcribeAudioClient: the outer catch returns the failure string.
transcribeAudioClient(ev) == Catch(WhisperBody(ev), Return(FailString))

\* The executor of transcribeAudioFallback's promise: every path calls
\* resolve except an exception of the recognizer's construction or start.
FallbackExecutor(ev) ==
    IF ev = "noApi" THEN Return(NoSpeechApiString)
    ELSE IF ev = "startThrows" THEN Throw
    ELSE IF ev = "text" THEN Return("text")
    ELSE Return(FailString)

\* transcribeAudioFallback: the executor's catch resolves with the failure
\* string; the promise has no reject path.
transcribeAudioFallback(ev) == Catch(FallbackExecutor(ev), Return(FailString))

\* performTranscription: the Whisper attempt if the closure saw it
\* supported, the fallback if that attempt throws or is not supported, and
\* a catch around both that returns the failure string.
performTranscription(wsup, ev, fev) ==
    LET first == IF wsup
                 THEN Catch(transcribeAudioClient(ev), transcribeAudioFallback(fev))
                 ELSE transcribeAudioFallback(fev)
    IN Catch(first, Return(FailString))

\* performTranscription after its await, then the continuation of onstop
\* that calls onRecordingComplete: with the transcript, or without one from
\* the catch around the call.
TranscriptionSettles(i, ev) ==
    /\ i \in DOMAIN trans
    /\ ev \in (IF trans[i].stage = "client" THEN WhisperEvents ELSE FallbackEvents)
    /\ \E fev \in FallbackEvents :
        LET wsup == trans[i].stage = "client"
            fellBack == wsup /\ transcribeAudioClient(ev).kind = "throw"
            out == performTranscription(wsup, ev, fev)
        IN /\ ~wsup => fev = ev
           /\ (wsup /\ ~fellBack) => fev = "text"
           /\ transcribedText' = IF out.kind = "return" THEN out.text ELSE transcribedText
           /\ delivered' = Delivery(trans[i].blob, "audio",
                                    IF out.kind = "return" THEN out.text ELSE "none",
                                    IF fellBack THEN "fallback" ELSE trans[i].stage,
                                    trans[i].stale)
    /\ isTranscribing' = FALSE
    /\ UNCHANGED lastStop
    /\ trans' = RemoveAt(trans, i)
    /\ UNCHANGED <<envVars, isRecording, recordedBlob, blobType, recordingTime, error, isPlaying,
                   mediaUrl, isLoading, isWhisperSupportedState, isMediaLoaded,
                   isPlaybackInProgress, streamVars, recVars, timerVars, playVars>>
    /\ CtlFrame
    /\ UNCHANGED <<hostVars, whisperVars>>

\* The preload started at mount rejects: initWhisper().catch clears the flag.
PreloadFails ==
    /\ comp = "media" /\ isWhisperSupportedState
    /\ isWhisperSupportedState' = FALSE
    /\ UNCHANGED <<envVars, isRecording, recordedBlob, blobType, recordingTime, error, isPlaying,
                   mediaUrl, isLoading, transcribedText, isTranscribing, isMediaLoaded,
                   isPlaybackInProgress, streamVars, recVars, timerVars, playVars,
                   transVars>>
    /\ CtlFrame
    /\ UNCHANGED <<hostVars, whisperVars>>

\* ------------------------------------------------------ InterviewSession
\* The host's state cells as one value, and the step that commits one.
HostNow ==
    [currentQuestionIndex |-> currentQuestionIndex, responseType |-> responseType,
     textResponse |-> textResponse, videoBlob |-> videoBlob, audioBlob |-> audioBlob,
     isSubmitting |-> isSubmitting, isCompleted |-> isCompleted,
     showConfirmDialog |-> showConfirmDialog, uploadError |-> uploadError]
HostBecomes(h) ==
    /\ currentQuestionIndex' = h.currentQuestionIndex
    /\ responseType' = h.responseType
    /\ textResponse' = h.textResponse
    /\ videoBlob' = h.videoBlob
    /\ audioBlob' = h.audioBlob
    /\ isSubmitting' = h.isSubmitting
    /\ isCompleted' = h.isCompleted
    /\ showConfirmDialog' = h.showConfirmDialog
    /\ uploadError' = h.uploadError
RecorderFrame ==
    UNCHANGED <<envVars, reactVars, streamVars, recVars, timerVars, playVars, transVars,
                ctlVars, whisperVars>>

\* The type tagged on a blob that the MediaRecorder of the given mode hands
\* to handleMediaRecordingComplete.
RecordedBlobType(type) == getBestMimeType(platform, type = "audio")
\* uploadMedia: the contentType option of the storage upload.
uploadContentType(type) == IF type = "audio" THEN "audio/webm" ELSE "video/webm"

resetResponseState(h) ==
    [h EXCEPT !.textResponse = "empty", !.videoBlob = 0, !.audioBlob = 0,
              !.uploadError = FALSE]

\* validateResponse
validateResponse(h) ==
    IF h.responseType = "text" THEN h.textResponse = "long"
    ELSE IF h.responseType = "video" THEN h.videoBlob # 0
    ELSE h.audioBlob # 0
\* The condition that enables the Preview and Next buttons.
CanSubmit(h) ==
    /\ ~h.isSubmitting
    /\ h.responseType = "text" => h.textResponse # "empty"
    /\ h.responseType = "video" => h.videoBlob # 0
    /\ h.responseType = "audio" => h.audioBlob # 0

\* A failure path that also resets the response.
submissionFailedResets(h) == resetResponseState([h EXCEPT !.isSubmitting = FALSE])

\* confirmSubmission's catch and finally blocks: a toast, and isSubmitting
\* is cleared.
submissionFailed(h) == [h EXCEPT !.isSubmitting = FALSE]

\* An advance that skips a question.
advanceQuestionSkips(h, idx) ==
    resetResponseState([h EXCEPT !.currentQuestionIndex = idx + 2, !.isSubmitting = FALSE])

\* confirmSubmission after saveResponse resolved, below the last question:
\* the index its closure captured plus one, and resetResponseState.
advanceQuestion(h, idx) ==
    resetResponseState([h EXCEPT !.currentQuestionIndex = idx + 1, !.isSubmitting = FALSE])

HostRendered == ~isCompleted

\* The text area.
SetTextResponse(t) ==
    /\ HostRendered /\ responseType = "text"
    /\ t \in TextResponses /\ t # textResponse
    /\ HostBecomes([HostNow EXCEPT !.textResponse = t])
    /\ UNCHANGED submission
    /\ RecorderFrame

\* The response type tabs; the effect keyed on
\* [currentQuestionIndex, responseType] calls resetResponseState.
SetResponseType(t) ==
    /\ HostRendered
    /\ t \in ResponseTypes /\ t # responseType
    /\ HostBecomes(resetResponseState([HostNow EXCEPT !.responseType = t]))
    /\ UNCHANGED submission
    /\ RecorderFrame

\* handleMediaRecordingComplete: the hosted recorder hands over blob b of the
\* given media type.
HandleMediaRecordingComplete(b, type) ==
    /\ HostRendered /\ responseType # "text"
    /\ b \in HostBlobs
    /\ HostBecomes(IF type = "audio" THEN [HostNow EXCEPT !.audioBlob = b]
                   ELSE [HostNow EXCEPT !.videoBlob = b])
    /\ HostNow' # HostNow
    /\ UNCHANGED submission
    /\ RecorderFrame

\* handleNextQuestion: opens the confirmation dialog for a valid response.
HandleNextQuestion ==
    /\ HostRendered /\ CanSubmit(HostNow) /\ ~showConfirmDialog
    /\ validateResponse(HostNow)
    /\ HostBecomes([HostNow EXCEPT !.showConfirmDialog = TRUE])
    /\ UNCHANGED submission
    /\ RecorderFrame

\* The dialog's Cancel button.
CancelConfirm ==
    /\ HostRendered /\ showConfirmDialog
    /\ HostBecomes([HostNow EXCEPT !.showConfirmDialog = FALSE])
    /\ UNCHANGED submission
    /\ RecorderFrame

\* confirmSubmission up to the first await of saveResponse: the upload for
\* a media response that holds its blob, the save otherwise.
ConfirmSubmission ==
    /\ HostRendered /\ showConfirmDialog /\ submission = NoSubmission
    /\ LET uploads == \/ responseType = "video" /\ videoBlob # 0
                      \/ responseType = "audio" /\ audioBlob # 0
       IN /\ submission' = Submission(IF uploads THEN "upload" ELSE "save",
                                      currentQuestionIndex, responseType,
                                      IF uploads THEN uploadContentType(responseType)
                                      ELSE "none")
          /\ HostBecomes([HostNow EXCEPT !.showConfirmDialog = FALSE,
                                         !.isSubmitting = TRUE,
                                         !.uploadError = IF uploads THEN FALSE ELSE @])
    /\ RecorderFrame

\* uploadMedia after its await: on an error it sets uploadError and returns
\* null, on which saveResponse throws into confirmSubmission's catch.
UploadSettles(ok) ==
    /\ submission.stage = "upload"
    /\ IF ok
       THEN /\ submission' = [submission EXCEPT !.stage = "save"]
            /\ HostBecomes(HostNow)
       ELSE /\ submission' = NoSubmission
            /\ HostBecomes(submissionFailed([HostNow EXCEPT !.uploadError = TRUE]))
    /\ RecorderFrame

\* saveResponseWithFeedback settles: a failure throws into confirmSubmission's
\* catch; after a success confirmSubmission moves on or completes.
SaveSettles(ok) ==
    /\ submission.stage = "save"
    /\ IF ~ok
       THEN /\ submission' = NoSubmission
            /\ HostBecomes(submissionFailed(HostNow))
       ELSE IF submission.idx < NumQuestions - 1
            THEN /\ submission' = NoSubmission
                 /\ HostBecomes(advanceQuestion(HostNow, submission.idx))
            ELSE /\ submission' = [submission EXCEPT !.stage = "complete"]
                 /\ HostBecomes(HostNow)
    /\ RecorderFrame

\* completeInterviewSession settles.
CompleteSettles(ok) ==
    /\ submission.stage = "complete"
    /\ submission' = NoSubmission
    /\ HostBecomes(IF ok THEN [HostNow EXCEPT !.isCompleted = TRUE, !.isSubmitting = FALSE]
                   ELSE submissionFailed(HostNow))
    /\ RecorderFrame

\* handlePreviousQuestion
HandlePreviousQuestion ==
    /\ HostRendered /\ currentQuestionIndex > 0 /\ ~isSubmitting
    /\ HostBecomes(resetResponseState(
                       [HostNow EXCEPT !.currentQuestionIndex = currentQuestionIndex - 1]))
    /\ UNCHANGED submission
    /\ RecorderFrame

HostNext ==
    \/ \E t \in TextResponses : SetTextResponse(t)
    \/ \E t \in ResponseTypes : SetResponseType(t)
    \/ \E b \in HostBlobs, t \in {"audio", "video"} : HandleMediaRecordingComplete(b, t)
    \/ HandleNextQuestion
    \/ CancelConfirm
    \/ ConfirmSubmission
    \/ \E ok \in BOOLEAN : UploadSettles(ok)
    \/ \E ok \in BOOLEAN : SaveSettles(ok)
    \/ \E ok \in BOOLEAN : CompleteSettles(ok)
    \/ HandlePreviousQuestion

\* ------------------------------------------------------------ initWhisper
\* The module-level state of whisper-client.
WhisperModuleNow ==
    [isWhisperLoaded |-> isWhisperLoaded, transformersLib |-> transformersLib,
     loadPromise |-> loadPromise, scriptElements |-> scriptElements]
WhisperModuleBecomes(m) ==
    /\ isWhisperLoaded' = m.isWhisperLoaded
    /\ transformersLib' = m.transformersLib
    /\ loadPromise' = m.loadPromise
    /\ scriptElements' = m.scriptElements

\* A call that never finds the cached promise.
hasLoadPromiseNever(m) == FALSE
\* if (loadPromise)
hasLoadPromise(m) == m.loadPromise # "null"

\* The executor of the load promise, which runs inside the call: throws
\* stands for an exception of createElement or appendChild.
startLoad(m, w, throws) ==
    IF ~w.has THEN [m EXCEPT !.loadPromise = "rejected"]
    ELSE IF w.transformers
    THEN [m EXCEPT !.transformersLib = TRUE, !.isWhisperLoaded = TRUE,
                   !.loadPromise = "resolved"]
    ELSE IF throws THEN [m EXCEPT !.loadPromise = "rejected"]
    ELSE [m EXCEPT !.scriptElements = @ + 1, !.loadPromise = "pending"]

\* initWhisper, called by the preload effect of a MediaRecorder or by
\* transcribeAudioClient.  The caller is given a fresh resolved promise or
\* the module's loadPromise.
initWhisper(who) ==
    /\ who \in WhisperCallers
    /\ Len(initCalls) < MaxCallers
    /\ LET m == WhisperModuleNow IN
       IF m.isWhisperLoaded /\ m.transformersLib
       THEN /\ initCalls' = Append(initCalls, [who |-> who, got |-> "resolved"])
            /\ WhisperModuleBecomes(m)
       ELSE /\ initCalls' = Append(initCalls, [who |-> who, got |-> "loadPromise"])
            /\ IF hasLoadPromise(m)
               THEN WhisperModuleBecomes(m)
               ELSE \E throws \in BOOLEAN :
                       /\ throws => (hasWindow /\ ~windowTransformers)
                       /\ WhisperModuleBecomes(
                              startLoad(m, Window(hasWindow, windowTransformers), throws))
    /\ UNCHANGED <<hasWindow, windowTransformers>>
    /\ UNCHANGED <<envVars, reactVars, streamVars, recVars, timerVars, playVars, transVars,
                   ctlVars, hostVars>>

\* script.onload: the library script ran; whether it defined the
\* Transformers global is up to the script.
ScriptLoaded(defines) ==
    /\ loadPromise = "pending"
    /\ windowTransformers' = (windowTransformers \/ defines)
    /\ WhisperModuleBecomes([WhisperModuleNow EXCEPT
                                 !.transformersLib = windowTransformers',
                                 !.isWhisperLoaded = TRUE,
                                 !.loadPromise = "resolved"])
    /\ UNCHANGED <<hasWindow, initCalls>>
    /\ UNCHANGED <<envVars, reactVars, streamVars, recVars, timerVars, playVars, transVars,
                   ctlVars, hostVars>>

\* script.onerror
ScriptFailed ==
    /\ loadPromise = "pending"
    /\ WhisperModuleBecomes([WhisperModuleNow EXCEPT !.loadPromise = "rejected"])
    /\ UNCHANGED <<hasWindow, windowTransformers, initCalls>>
    /\ UNCHANGED <<envVars, reactVars, streamVars, recVars, timerVars, playVars, transVars,
                   ctlVars, hostVars>>

WhisperNext ==
    \/ \E who \in WhisperCallers : initWhisper(who)
    \/ \E defines \in BOOLEAN : ScriptLoaded(defines)
    \/ ScriptFailed

\* -------------------------------------------------------------------- Next
Next ==
    \/ \E i \in 1..MaxPending : AcquireOk(i)
    \/ \E i \in 1..MaxPending, c \in {"permission", "device"} : AcquireFail(i, c)
    \/ StartRecording
    \/ \E i \in 1..MaxRetry : RetryFires(i)
    \/ \E r \in 1..MaxRec, n \in 0..MaxChunkSize : DataAvailable(r, n)
    \/ StopRecording
    \/ \E r \in 1..MaxRec : OnStopMedia(r)
    \/ \E r \in 1..MaxRec : OnStopPlain(r)
    \/ ResetRecording
    \/ \E t \in {"audio", "video"} : SetMediaType(t)
    \/ TogglePlayback
    \/ \E i \in 1..MaxToggle, ok \in BOOLEAN : ToggleSettle(i, ok)
    \/ \E d \in 1..MaxDuration : MediaLoaded(d)
    \/ \E d \in 1..MaxDuration : LoadedMetadata(d)
    \/ MediaEnded
    \/ \E v \in Volumes : HandleVolumeChange(v)
    \/ ToggleMute
    \/ \E t \in SeekTimes : HandleSliderChange(t)
    \/ \E v \in Volumes : AnalysisFrame(v)
    \/ DeviceLost
    \/ ClockTick
    \/ Unmount
    \/ \E i \in 1..MaxRec, ev \in WhisperEvents \cup FallbackEvents :
          TranscriptionSettles(i, ev)
    \/ PreloadFails
    \/ HostNext
    \/ WhisperNext

Spec == Init /\ [][Next]_vars

\* ------------------------------------------------ focused specifications
\* Sub-behaviours of Spec: one component, and the handlers one concern
\* involves.  Every behaviour of these is a behaviour of Spec.

\* WebcamRecorder: acquisition, recording, reset and teardown.
InitWebcam == Init /\ comp = "webcam"
NextWebcam ==
    \/ \E i \in 1..MaxPending : AcquireOk(i)
    \/ \E i \in 1..MaxPending, c \in {"permission", "device"} : AcquireFail(i, c)
    \/ StartRecording
    \/ \E i \in 1..MaxRetry : RetryFires(i)
    \/ \E r \in 1..MaxRec, n \in 0..MaxChunkSize : DataAvailable(r, n)
    \/ StopRecording
    \/ \E r \in 1..MaxRec : OnStopPlain(r)
    \/ ResetRecording
    \/ ClockTick
    \/ Unmount
SpecWebcam == InitWebcam /\ [][NextWebcam]_vars

\* AudioRecorder: a recording and its playback.
InitAudio == Init /\ comp = "audio"
NextAudioPlayback ==
    \/ \E i \in 1..MaxPending : AcquireOk(i)
    \/ StartRecording
    \/ \E r \in 1..MaxRec, n \in 0..MaxChunkSize : DataAvailable(r, n)
    \/ StopRecording
    \/ \E r \in 1..MaxRec : OnStopPlain(r)
    \/ ResetRecording
    \/ TogglePlayback
    \/ \E i \in 1..MaxToggle, ok \in BOOLEAN : ToggleSettle(i, ok)
    \/ MediaEnded
SpecAudioPlayback == InitAudio /\ [][NextAudioPlayback]_vars

\* AudioRecorder: recordings of one chunk each, and the volume and mute
\* controls of the playback view.
NextAudioVolume ==
    \/ \E i \in 1..MaxPending : AcquireOk(i)
    \/ StartRecording
    \/ \E r \in 1..MaxRec : DataAvailable(r, 1)
    \/ StopRecording
    \/ \E r \in 1..MaxRec : OnStopPlain(r)
    \/ ResetRecording
    \/ \E v \in Volumes : HandleVolumeChange(v)
    \/ ToggleMute
SpecAudioVolume == InitAudio /\ [][NextAudioVolume]_vars

\* AudioRecorder: recordings of one chunk each, and the seek control.
NextAudioSeek ==
    \/ \E i \in 1..MaxPending : AcquireOk(i)
    \/ StartRecording
    \/ \E r \in 1..MaxRec : DataAvailable(r, 1)
    \/ StopRecording
    \/ \E r \in 1..MaxRec : OnStopPlain(r)
    \/ ResetRecording
    \/ \E d \in 1..MaxDuration : LoadedMetadata(d)
    \/ \E t \in SeekTimes : HandleSliderChange(t)
SpecAudioSeek == InitAudio /\ [][NextAudioSeek]_vars

\* MediaRecorder: recording sessions, their finalization and transcription.
InitMedia == Init /\ comp = "media"
NextMediaSession ==
    \/ \E i \in 1..MaxPending : AcquireOk(i)
    \/ StartRecording
    \/ \E r \in 1..MaxRec, n \in 0..MaxChunkSize : DataAvailable(r, n)
    \/ StopRecording
    \/ \E r \in 1..MaxRec : OnStopMedia(r)
    \/ ResetRecording
    \/ \E i \in 1..MaxRec, ev \in WhisperEvents \cup FallbackEvents :
          TranscriptionSettles(i, ev)
SpecMediaSession == InitMedia /\ [][NextMediaSession]_vars

\* MediaRecorder: recordings of one chunk each and their playback.
NextMediaPlayback ==
    \/ \E i \in 1..MaxPending : AcquireOk(i)
    \/ StartRecording
    \/ \E r \in 1..MaxRec : DataAvailable(r, 1)
    \/ StopRecording
    \/ \E r \in 1..MaxRec : OnStopMedia(r)
    \/ ResetRecording
    \/ TogglePlayback
    \/ \E i \in 1..MaxToggle, ok \in BOOLEAN : ToggleSettle(i, ok)
    \/ \E d \in 1..MaxDuration : MediaLoaded(d)
    \/ MediaEnded
SpecMediaPlayback == InitMedia /\ [][NextMediaPlayback]_vars

\* WebcamRecorder: recordings started directly or through the
\* acquire-then-retry path, and their playback.
InitWebcamLong == InitWith(MaxRecLong, {DefaultPlatform}) /\ comp = "webcam"
NextWebcamPlayback ==
    \/ \E i \in 1..MaxPending : AcquireOk(i)
    \/ StartRecording
    \/ \E i \in 1..MaxRetry : RetryFires(i)
    \/ \E r \in 1..MaxRecLong : DataAvailable(r, 1)
    \/ StopRecording
    \/ \E r \in 1..MaxRecLong : OnStopPlain(r)
    \/ ResetRecording
    \/ TogglePlayback
    \/ \E i \in 1..MaxToggle, ok \in BOOLEAN : ToggleSettle(i, ok)
    \/ MediaEnded
SpecWebcamPlayback == InitWebcamLong /\ [][NextWebcamPlayback]_vars

\* MediaRecorder and WebcamRecorder: recordings and their playback.
InitPlayback == InitWith(MaxRecLong, {DefaultPlatform}) /\ comp \in {"media", "webcam"}
SpecPlayback == InitPlayback /\ [][NextMediaPlayback \/ NextWebcamPlayback]_vars

\* The whisper-client module on every page, with the MediaRecorder mounted.
InitWhisperModule == InitIn(MaxRec, {DefaultPlatform}, Windows) /\ comp = "media"
SpecWhisper == InitWhisperModule /\ [][WhisperNext]_vars

\* MediaRecorder on every platform: one recording, from the negotiation of
\* its type to the finalized blob.
InitMediaPlatforms == InitWith(MaxRecShort, Platforms) /\ comp = "media"
NextMediaMime ==
    \/ \E i \in 1..MaxPending : AcquireOk(i)
    \/ StartRecording
    \/ \E r \in 1..MaxRecShort : DataAvailable(r, 1)
    \/ StopRecording
    \/ \E r \in 1..MaxRecShort : OnStopMedia(r)
    \/ ResetRecording
SpecMediaMime == InitMediaPlatforms /\ [][NextMediaMime]_vars

\* InterviewSession: answering, submitting and navigating, with the hosted
\* recorder's deliveries as inputs.
SpecInterviewSession == InitMedia /\ [][HostNext]_vars
\* The same on every platform.
SpecInterviewUpload == InitMediaPlatforms /\ [][HostNext]_vars

\* MediaRecorder: audio and video sessions whose transcriptions settle.
NextMediaTranscription ==
    \/ \E i \in 1..MaxPending : AcquireOk(i)
    \/ StartRecording
    \/ \E r \in 1..MaxRec : DataAvailable(r, 1)
    \/ StopRecording
    \/ \E r \in 1..MaxRec : OnStopMedia(r)
    \/ ResetRecording
    \/ \E i \in 1..MaxRec, ev \in WhisperEvents \cup FallbackEvents :
          TranscriptionSettles(i, ev)
SpecMediaTranscription == InitMedia /\ [][NextMediaTranscription]_vars

\* MediaRecorder: resets by the Record Again button and by the effect keyed
\* on mediaType.
NextMediaReset ==
    \/ \E i \in 1..MaxPending : AcquireOk(i)
    \/ StartRecording
    \/ \E r \in 1..MaxRec : DataAvailable(r, 1)
    \/ StopRecording
    \/ \E r \in 1..MaxRec : OnStopMedia(r)
    \/ ResetRecording
    \/ \E t \in {"audio", "video"} : SetMediaType(t)
SpecMediaReset == InitMedia /\ [][NextMediaReset]_vars

\* MediaRecorder: a recording session during which the device may go away.
NextMediaDeviceLoss ==
    \/ \E i \in 1..MaxPending : AcquireOk(i)
    \/ StartRecording
    \/ \E r \in 1..MaxRec : DataAvailable(r, 1)
    \/ DeviceLost
    \/ StopRecording
    \/ \E r \in 1..MaxRec : OnStopMedia(r)
    \/ ResetRecording
    \/ ClockTick
SpecMediaDeviceLoss == InitMedia /\ [][NextMediaDeviceLoss]_vars

\* MediaRecorder: failed acquisitions, the acquire-then-retry path of
\* startRecording, and the exits by stop and unmount.
NextMediaRetry ==
    \/ \E i \in 1..MaxPending : AcquireOk(i)
    \/ \E i \in 1..MaxPending, c \in {"permission", "device"} : AcquireFail(i, c)
    \/ StartRecording
    \/ \E i \in 1..MaxRetry : RetryFires(i)
    \/ StopRecording
    \/ ClockTick
    \/ Unmount
SpecMediaRetry == InitMedia /\ [][NextMediaRetry]_vars

\* ------------------------------------------------------------------ claims
NoClockRunning == ~timerRefLive /\ orphanClocks = 0
NoTimerRunning == NoClockRunning /\ ~playTimerLive /\ analysisLoops = 0

\* C1: a handled stop event stores a blob if and only if its recorder
\* delivered at least one non-empty chunk, and no blob that is stored or
\* handed to onRecordingComplete has zero bytes.
C1_BlobIffNonEmptyChunk ==
    /\ lastStop.r # 0 => (lastStop.blob.has <=> lastStop.got # <<>>)
    /\ recordedBlob.has => BlobSize(recordedBlob) > 0
    /\ delivered.any => BlobSize(delivered.blob) > 0

\* C2: no retry timer of startRecording is ever scheduled by the callback
\* of an acquisition that failed.
C2_NoRetryAfterFailedAcquisition ==
    \A i \in DOMAIN retries : ~retries[i].afterFail

\* C3: a transcript that is the outcome of the Whisper attempt alone is
\* never the failure string: a failed Whisper attempt is followed by the
\* fallback, and only the fallback's failure ends in the failure string.
C3_FailStringOnlyAfterFallback ==
    (delivered.any /\ delivered.text = FailString) => delivered.via = "fallback"

\* C4: no transcription result that a reset overtook is handed to
\* onRecordingComplete.
C4_NoStaleDelivery ==
    delivered.any => ~delivered.stale

\* C5: at most one togglePlayback invocation is awaiting its play() or
\* pause wait at any time; a further invocation does not reach play().
C5_OneToggleInFlight ==
    Len(toggles) <= 1

\* C6: every step that is a resetRecording leaves no timer running, no
\* stream referenced and no earlier stream with live tracks.
C6_ResetReleasesEverything ==
    [][ResetRecording => (NoTimerRunning /\ ~streamRef /\ leakedStreams = 0)']_vars

\* C7: outside recording no recording-clock interval is running, and after
\* unmount no timer of any kind is.
C7_NoTimerAfterStopOrUnmount ==
    /\ ~isRecording => NoClockRunning
    /\ ~mounted => NoTimerRunning

\* C8: no object URL is revoked twice, and after unmount every URL that was
\* created has been revoked.
C8_UrlRevokedExactlyOnce ==
    /\ \A u \in DOMAIN urls : urls[u] <= 1
    /\ ~mounted => \A u \in DOMAIN urls : urls[u] = 1

\* C9: the step in which the acquisition started by startRecording is
\* refused for lack of permission ends with the permission error shown,
\* not recording, and no clock, analysis or retry timer scheduled.
C9_PermissionDeniedLeavesNoTimer ==
    [][\A i \in 1..MaxPending :
          (AcquireFail(i, "permission") /\ acqs[i].retry)
              => (error = "permission" /\ ~isRecording /\ NoClockRunning
                  /\ analysisLoops = 0 /\ retries = <<>>)']_vars

\* C10: when the recorder whose stop event was handled delivered non-empty
\* chunks, the stored blob consists of exactly those chunks in order, and
\* the component is no longer recording.
C10_BlobIsSessionChunks ==
    (lastStop.r # 0 /\ lastStop.got # <<>>)
        => (lastStop.blob = MkBlob(lastStop.got) /\ ~isRecording)

\* C11: every step that is a seek leaves the position state within
\* [0, duration], whatever position was requested.
C11_SeekClamped ==
    [][\A t \in SeekTimes :
          HandleSliderChange(t) => (0 <= currentTime' /\ currentTime' <= duration')]_vars

\* C12: from every state with the controls and the element rendered and
\* the sound not muted, toggleMute applied twice gives back the volume
\* state and the element volume the level v the state held, unmuted; and
\* every press of the mute button with a rendered element is one such
\* application.
C12_MuteRoundTrip ==
    /\ []((ControlsRendered /\ ElemMounted /\ ~isMuted)
            => LET back == toggleMute(toggleMute(CtlNow, TRUE), TRUE)
               IN back.volume = volume /\ back.elemVolume = volume /\ ~back.isMuted)
    /\ [][(ToggleMute /\ ElemMounted) => CtlNow' = toggleMute(CtlNow, TRUE)]_vars

\* A mute at level 0.7 was undone and the level is back in state and element.
C12_Witness ==
    /\ ControlsRendered /\ ElemMounted /\ ~isMuted
    /\ volume = 7 /\ previousVolume = 7 /\ elemVolume = 7

\* C13: whenever the mute flag is set, a rendered playback element has
\* volume 0.
C13_MutedMeansSilent ==
    (isMuted /\ ElemMounted) => elemVolume = 0

\* C14: every step that is a volume change to level v ends muted exactly
\* when v is 0.
C14_VolumeSetsMute ==
    [][\A v \in Volumes : HandleVolumeChange(v) => (isMuted' <=> v = 0)]_vars

\* C15: whenever the mounted component is recording, an analysis loop is
\* running to emit the samples.
C15_EmitterRunsWhileRecording ==
    (mounted /\ isRecording) => analysisLoops > 0

\* C16: once a device loss during recording has taken effect (the stop
\* events of the recorders it ended were handled), the component shows an
\* error, is no longer recording and no clock counts time.
C16_DeviceLossIsReported ==
    (tracksEnded /\ \A r \in DOMAIN recs : recs[r].st # "stopping")
        => (error # "none" /\ ~isRecording /\ NoClockRunning)

\* C17: a step of resetRecording leaves no accumulated chunk, no blob and no
\* playback URL, and every derived state at its initial value: elapsed time,
\* playback position, duration and playing flag, volume and mute state,
\* transcription text and in-progress flag.
C17_ResetRestoresInitialState ==
    [][ResetRecording =>
         (/\ chunksRef = <<>> /\ ~recordedBlob.has /\ mediaUrl = 0
          /\ recordingTime = 0 /\ currentTime = 0 /\ duration = 0 /\ ~isPlaying
          /\ volume = InitialVolume /\ ~isMuted /\ previousVolume = InitialVolume
          /\ transcribedText = "none" /\ ~isTranscribing)']_vars

\* C18: a resetRecording run in the state a resetRecording has just left
\* (idle, nothing recorded, nothing held, its re-acquisition still pending)
\* changes neither the session state nor the number of streams held or
\* being acquired, of running timers and of outstanding URLs.
JustReset ==
    /\ comp = "media" /\ mounted /\ ~isRecording /\ ~recordedBlob.has /\ mediaUrl = 0
    /\ ~streamRef /\ isLoading /\ Len(acqs) = 1 /\ NoTimerRunning
StreamsHeldOrPending == (IF streamRef THEN 1 ELSE 0) + leakedStreams + Len(acqs)
SessionState ==
    <<isRecording, recordedBlob, recordingTime, error, isPlaying, mediaUrl, isLoading,
      transcribedText, isMediaLoaded, isPlaybackInProgress>>
C18_ResetIdempotent ==
    [][(JustReset /\ \E t \in {"audio", "video"} : SetMediaType(t))
         => (/\ SessionState' = SessionState
             /\ StreamsHeldOrPending' = StreamsHeldOrPending
             /\ NoTimerRunning'
             /\ urls' = urls)]_vars

\* C19: whatever happens to the Whisper and Web Speech attempts,
\* transcribeAudioClient, transcribeAudioFallback and performTranscription
\* complete by returning one of the transcript strings, never by throwing,
\* and every settled transcription hands that string to onRecordingComplete.
C19_AdaptersNeverThrow ==
    /\ [](/\ \A ev \in WhisperEvents :
               /\ transcribeAudioClient(ev).kind = "return"
               /\ transcribeAudioClient(ev).text \in TranscriptTexts
          /\ \A fev \in FallbackEvents :
               /\ transcribeAudioFallback(fev).kind = "return"
               /\ transcribeAudioFallback(fev).text \in TranscriptTexts
          /\ \A w \in BOOLEAN, ev \in WhisperEvents, fev \in FallbackEvents :
               /\ performTranscription(w, ev, fev).kind = "return"
               /\ performTranscription(w, ev, fev).text \in TranscriptTexts)
    /\ [][(\E i \in 1..MaxRec, ev \in WhisperEvents \cup FallbackEvents :
              TranscriptionSettles(i, ev))
            => (/\ delivered'.any /\ delivered'.text \in TranscriptTexts
                /\ transcribedText' = delivered'.text /\ ~isTranscribing')]_vars
\* A Whisper attempt failed and its transcription settled with the failure
\* string handed to the host.
C19_Witness ==
    /\ comp = "media" /\ delivered.any /\ delivered.type = "audio"
    /\ delivered.text = FailString /\ delivered.via = "client"
    /\ transcribedText = FailString /\ ~isTranscribing

\* C20: a failed upload or save leaves the host's blobs, question index and
\* response type as they were; a blob is cleared only by the step in which
\* the save succeeded or in which the question or the response type changes.
C20_FailureKeepsBlob ==
    /\ [][(UploadSettles(FALSE) \/ SaveSettles(FALSE))
            => UNCHANGED <<videoBlob, audioBlob, currentQuestionIndex, responseType>>]_vars
    /\ [][((videoBlob # 0 /\ videoBlob' = 0) \/ (audioBlob # 0 /\ audioBlob' = 0))
            => \/ SaveSettles(TRUE)
               \/ currentQuestionIndex' # currentQuestionIndex
               \/ responseType' # responseType]_vars
\* An audio response whose upload failed: the submission is over and the
\* blob is still held for the next attempt.
C20_Witness ==
    /\ responseType = "audio" /\ audioBlob # 0 /\ uploadError
    /\ ~isSubmitting /\ submission = NoSubmission

\* C21: playback runs only in the stopped state: while isPlaying is true or
\* the playback polling timer runs, a finalized blob and its playback URL
\* exist and the recorder is not recording.
C21_PlaybackOnlyWhenStopped ==
    (isPlaying \/ playTimerLive) => (recordedBlob.has /\ mediaUrl # 0 /\ ~isRecording)

\* C22: every transcription in flight was started for a non-empty
\* finalized blob, no two of them by the same recorder; a transcription is
\* started only by the stop event of a recorder started in audio mode, for
\* the blob that stop event stores, and never by the stop event of a
\* recorder started in video mode.
C22_TranscriptionOnlyForAudioBlob ==
    /\ [](\A i \in DOMAIN trans :
             /\ trans[i].blob.has /\ BlobSize(trans[i].blob) > 0
             /\ \A j \in DOMAIN trans : i # j => trans[i].rec # trans[j].rec)
    /\ [][Len(trans') > Len(trans)
            => \E r \in DOMAIN recs :
                  /\ OnStopMedia(r) /\ recs[r].cl.type = "audio"
                  /\ trans' = Append(trans, trans'[Len(trans')])
                  /\ trans'[Len(trans')].rec = r
                  /\ trans'[Len(trans')].blob = recordedBlob']_vars
    /\ [][\A r \in DOMAIN recs :
            (OnStopMedia(r) /\ recs[r].cl.type = "video")
                => trans' = trans]_vars
\* The stop event of an audio recording stored its blob and its
\* transcription is in flight.
C22_Witness ==
    /\ comp = "media" /\ mediaType = "audio" /\ Len(trans) = 1 /\ isTranscribing
    /\ recordedBlob.has /\ trans[1].blob = recordedBlob /\ ~trans[1].stale

\* C24: the type a recorder was started with is the first type of its
\* mode's preference list that the platform reports as supported, or the
\* generic container type when it reports none or cannot be probed; and a
\* finalized blob carries that type.
ExpectedMimeType(p, isAudio) ==
    LET list == IF isAudio THEN AudioTypes ELSE VideoTypes
        ok == {i \in DOMAIN list : p.probe = "ok" /\ list[i] \in p.supported}
    IN IF ok = {} THEN (IF isAudio THEN "audio/webm" ELSE "video/webm")
       ELSE list[CHOOSE i \in ok : \A j \in ok : i <= j]
C24_BestMimeTypeTagsBlob ==
    /\ \A r \in DOMAIN recs :
          recs[r].st # "inactive"
              => recs[r].mime = ExpectedMimeType(platform, recs[r].cl.type = "audio")
    /\ recordedBlob.has => blobType = ExpectedMimeType(platform, mediaType = "audio")
\* A platform that records two audio types, neither of them WebM: the
\* finalized blob carries the one the list prefers.
C24_Witness ==
    /\ comp = "media" /\ platform = Platform("ok", {"audio/wav", "audio/mp4"})
    /\ recordedBlob.has /\ blobType = "audio/mp4"

\* C23: while a recording is uploaded, the content type given to the
\* storage upload is the type tagged on the recorded blob.
C23_UploadContentTypeIsBlobType ==
    submission.stage = "upload"
        => submission.contentType = RecordedBlobType(submission.type)

C26_ChunkBufferOwnedBySession ==
    comp # "webcam"
        => \A r \in DOMAIN recs :
              recs[r].st \in {"recording", "stopping"} => chunksRef = recs[r].got

\* C27: at most one recording-clock interval runs at any time, and the
\* clock ticks only while the component is recording.
C27_AtMostOneRecordingClock ==
    /\ []((IF timerRefLive THEN 1 ELSE 0) + orphanClocks <= 1)
    /\ [][ClockTick => isRecording]_vars

\* C28: initWhisper starts at most one load and appends at most one script
\* element; a call made while a load promise exists is given that promise
\* and changes nothing, a call after the library was loaded is given a
\* resolved promise, and once the load was rejected every caller holds the
\* rejected promise; a settled load is never started again.
CallOutcome(c) == IF c.got = "resolved" THEN "resolved" ELSE loadPromise
C28_WhisperLoadsAtMostOnce ==
    /\ [](scriptElements <= 1)
    /\ [](loadPromise = "rejected"
            => \A i \in DOMAIN initCalls : CallOutcome(initCalls[i]) = "rejected")
    /\ [](loadPromise = "resolved"
            => \A i \in DOMAIN initCalls : CallOutcome(initCalls[i]) = "resolved")
    /\ [][\A who \in WhisperCallers :
            (initWhisper(who) /\ loadPromise # "null")
                => /\ loadPromise' = loadPromise
                   /\ scriptElements' = scriptElements
                   /\ isWhisperLoaded' = isWhisperLoaded
                   /\ LET c == initCalls'[Len(initCalls')]
                      IN (IF c.got = "resolved" THEN "resolved" ELSE loadPromise')
                            = loadPromise]_vars
    /\ [][(loadPromise = "resolved" \/ loadPromise = "rejected")
            => (loadPromise' = loadPromise /\ scriptElements' = scriptElements)]_vars
\* Three callers of a load that failed: one script element was appended,
\* and the preload effect and transcribeAudioClient hold the same rejected
\* promise.
C28_Witness ==
    /\ Len(initCalls) = MaxCallers /\ loadPromise = "rejected" /\ scriptElements = 1
    /\ \E i, j \in DOMAIN initCalls :
          initCalls[i].who = "preload" /\ initCalls[j].who = "transcribe"
    /\ \A i \in DOMAIN initCalls : initCalls[i].got = "loadPromise"

\* C30: the question index stays within 0 .. NumQuestions - 1; it grows
\* only by one and only in the step in which the save of the current
\* response succeeded; the interview becomes completed only from the last
\* question, after its response was saved and the completion succeeded; and
\* whenever no submission is in flight isSubmitting is false.
C30_IndexInRangeAndAdvancesAfterSave ==
    /\ [](currentQuestionIndex \in 0..(NumQuestions - 1))
    /\ [](submission = NoSubmission => ~isSubmitting)
    /\ [][currentQuestionIndex' > currentQuestionIndex
            => /\ SaveSettles(TRUE)
               /\ submission.idx = currentQuestionIndex
               /\ currentQuestionIndex' = currentQuestionIndex + 1]_vars
    /\ [][(submission'.stage = "complete" /\ submission.stage # "complete")
            => (SaveSettles(TRUE) /\ currentQuestionIndex = NumQuestions - 1)]_vars
    /\ [][(isCompleted' /\ ~isCompleted)
            => /\ CompleteSettles(TRUE)
               /\ currentQuestionIndex' = NumQuestions - 1
               /\ ~isSubmitting']_vars
\* The interview was completed from the last question, and a failed attempt
\* is over on an earlier path: no submission is in flight.
C30_Witness ==
    /\ isCompleted /\ currentQuestionIndex = NumQuestions - 1
    /\ ~isSubmitting /\ submission = NoSubmission

\* C29: no acquired stream keeps live tracks without a reference through
\* which a teardown can stop them: none is displaced from streamRef while
\* live, and none is held with live tracks after the unmount.
C29_NoStreamWithoutHandle ==
    /\ leakedStreams = 0
    /\ ~mounted => ~(streamRef /\ ~tracksEnded)

====
